---- MODULE Spec2Model ----
(***************************************************************************)
(* Hand-off dashboard (src/app/page.tsx and its iteration                  *)
(* src/unnamed/part_000): the value classifier isUseful, the timestamp     *)
(* formatter niceTime, the section builder detailSections, and the page    *)
(* component Home with its asynchronous store calls (load, loadSignoffs,   *)
(* submitSignoff).                                                         *)
(*                                                                         *)
(* JavaScript strings are sequences of one-character strings.  A value of  *)
(* type unknown / string | null | undefined is a record tagged by t.       *)
(***************************************************************************)
EXTENDS Integers, Sequences, FiniteSets, Bags, TLC

VARIABLES
    variant,            \* which iteration of the page runs: "page" or "part_000"
    rows,               \* useState<Handoff[]>
    selectedId,         \* useState<string | null>; 0 is null
    selectedSignoffs,   \* useState<Signoff[]>
    loading,            \* useState(false)
    enableSignoff,      \* useState(false)
    signName,           \* useState("")
    signRole,           \* useState("")
    signPhase,          \* useState("")
    signNotes,          \* useState("")
    signSaving,         \* useState(false)
    alertMsg,           \* text of the alert() now open, "" when none is
    loads,              \* load() calls awaiting the handoffs query
    lists,              \* loadSignoffs() calls awaiting the listing query
    inserts,            \* submitSignoff() calls awaiting the insert
    signoffTable,       \* the store's handoff_signoffs table, in insertion order
    probe,              \* input of the pure function under examination
    probeOut            \* its result, once applied

uiVars == <<variant, rows, selectedId, selectedSignoffs, loading, enableSignoff,
            signName, signRole, signPhase, signNotes, signSaving, alertMsg,
            loads, lists, inserts, signoffTable>>
probeVars == <<probe, probeOut>>
vars == <<variant, rows, selectedId, selectedSignoffs, loading, enableSignoff,
          signName, signRole, signPhase, signNotes, signSaving, alertMsg,
          loads, lists, inserts, signoffTable, probe, probeOut>>

----------------------------------------------------------------------------
(* JavaScript values and strings *)

Null == [t |-> "null"]
Undefined == [t |-> "undefined"]
Str(s) == [t |-> "string", s |-> s]
Num(n) == [t |-> "number", n |-> n]
Bool(b) == [t |-> "boolean", b |-> b]

\* the white space String.prototype.trim removes, as far as the model's alphabet has it
WhiteSpace == {" ", "\t", "\n"}

UpperCase == <<"A","B","C","D","E","F","G","H","I","J","K","L","M",
               "N","O","P","Q","R","S","T","U","V","W","X","Y","Z">>
LowerCase == <<"a","b","c","d","e","f","g","h","i","j","k","l","m",
               "n","o","p","q","r","s","t","u","v","w","x","y","z">>

RECURSIVE trimStart(_)
trimStart(s) ==
    IF s # <<>> /\ Head(s) \in WhiteSpace THEN trimStart(Tail(s)) ELSE s

RECURSIVE trimEnd(_)
trimEnd(s) ==
    IF s # <<>> /\ s[Len(s)] \in WhiteSpace
    THEN trimEnd(SubSeq(s, 1, Len(s) - 1))
    ELSE s

\* String.prototype.trim
trim(s) == trimEnd(trimStart(s))

toLowerChar(c) ==
    IF \E i \in DOMAIN UpperCase : UpperCase[i] = c
    THEN LowerCase[CHOOSE i \in DOMAIN UpperCase : UpperCase[i] = c]
    ELSE c

\* String.prototype.toLowerCase
toLowerCase(s) == [i \in DOMAIN s |-> toLowerChar(s[i])]

\* JavaScript truthiness of a string | null | undefined value: !!v
Truthy(v) ==
    CASE v.t = "string" -> v.s # <<>>
      [] v.t = "number" -> v.n # 0
      [] v.t = "boolean" -> v.b
      [] OTHER -> FALSE

RECURSIVE digits(_)
digits(n) ==
    IF n < 10
    THEN <<<<"0","1","2","3","4","5","6","7","8","9">>[n + 1]>>
    ELSE Append(digits(n \div 10), <<"0","1","2","3","4","5","6","7","8","9">>[(n % 10) + 1])

\* String(v) on the values the model has (numbers are non-negative integers)
String(v) ==
    CASE v.t = "string" -> v.s
      [] v.t = "number" -> digits(v.n)
      [] v.t = "boolean" -> IF v.b THEN <<"t","r","u","e">> ELSE <<"f","a","l","s","e">>
      [] v.t = "null" -> <<"n","u","l","l">>
      [] OTHER -> <<"u","n","d","e","f","i","n","e","d">>

SentinelNA == <<"n","/","a">>
SentinelNa == <<"n","a">>
SentinelNull == <<"n","u","l","l">>
SentinelUndefined == <<"u","n","d","e","f","i","n","e","d">>

isUsefulNoTrim(v) ==
    IF v.t \in {"null", "undefined"} THEN FALSE
    ELSE IF v.t = "string"
         THEN LET s == toLowerCase(v.s)
              IN  /\ s # <<>>
                  /\ s # SentinelNA
                  /\ s # SentinelNa
                  /\ s # SentinelNull
                  /\ s # SentinelUndefined
         ELSE TRUE

isUseful(v) ==
    IF v.t \in {"null", "undefined"} THEN FALSE
    ELSE IF v.t = "string"
         THEN LET s == toLowerCase(trim(v.s))
              IN  /\ s # <<>>
                  /\ s # SentinelNA
                  /\ s # SentinelNa
                  /\ s # SentinelNull
                  /\ s # SentinelUndefined
         ELSE TRUE

----------------------------------------------------------------------------
(* niceTime *)

Digit == {"0","1","2","3","4","5","6","7","8","9"}

\* new Date(ts) is a valid date: of the strings the model uses, exactly the
\* ISO 8601 calendar dates YYYY-MM-DD parse
ValidDate(s) ==
    /\ Len(s) = 10
    /\ \A i \in {1, 2, 3, 4, 6, 7, 9, 10} : s[i] \in Digit
    /\ s[5] = "-" /\ s[8] = "-"

\* Date.prototype.toLocaleString of a parsed YYYY-MM-DD, as the en-GB locale prints it
toLocaleString(s) ==
    <<s[9], s[10], "/", s[6], s[7], "/", s[1], s[2], s[3], s[4],
      ",", " ", "0", "0", ":", "0", "0", ":", "0", "0">>

niceTime(ts) ==
    IF ~Truthy(ts) THEN Str(SentinelNA)
    ELSE IF ValidDate(ts.s) THEN Str(toLocaleString(ts.s)) ELSE ts

----------------------------------------------------------------------------
(* detailSections *)

\* `selected` when rows.find(...) finds nothing: null
NoRecord == [id |-> 0]

\* addSection that keeps every entry, useful or not
addSectionNoFilter(sections, title, entries) ==
    LET items == [i \in DOMAIN entries |->
                     [label |-> entries[i][1], value |-> String(entries[i][2])]]
    IN  IF Len(items) # 0
        THEN Append(sections, [title |-> title, items |-> items])
        ELSE sections

\* addSection that pushes the section whatever its items
addSectionAlwaysPush(sections, title, entries) ==
    LET kept == SelectSeq(entries, LAMBDA e : isUseful(e[2]))
        items == [i \in DOMAIN kept |->
                     [label |-> kept[i][1], value |-> String(kept[i][2])]]
    IN  Append(sections, [title |-> title, items |-> items])

\* const addSection = (title, entries) => { ... sections.push(...) }
addSection(sections, title, entries) ==
    LET kept == SelectSeq(entries, LAMBDA e : isUseful(e[2]))
        items == [i \in DOMAIN kept |->
                     [label |-> kept[i][1], value |-> String(kept[i][2])]]
    IN  IF Len(items) # 0
        THEN Append(sections, [title |-> title, items |-> items])
        ELSE sections

detailSections(selected) ==
    IF selected = NoRecord THEN <<>>
    ELSE
    LET s1 == addSection(<<>>, "Core", <<
                <<"Phase", selected.phase>>,
                <<"Client", selected.client_name>>,
                <<"Reported by", selected.reported_by>>,
                <<"Role", selected.reported_role>>,
                <<"Priority", selected.priority>>,
                <<"Budget", selected.budget>>,
                <<"Created", niceTime(selected.created_at)>> >>)
        s2 == addSection(s1, "Sales info", <<
                <<"Pain points", selected.pain_points>>,
                <<"AI models discussed", selected.ai_models_discussed>> >>)
        s3 == addSection(s2, "Solutions info", <<
                <<"Technical constraints", selected.technical_constraints>>,
                <<"API info", selected.api_information>>,
                <<"Edge cases", selected.edge_cases>> >>)
        s4 == addSection(s3, "Engineering info", <<
                <<"Latency requirements", selected.latency_requirements>>,
                <<"GPU cost notes", selected.gpu_cost_notes>>,
                <<"Docker tag", selected.docker_tag>> >>)
        s5 == addSection(s4, "Product info", <<
                <<"Performance metrics", selected.performance_metrics>>,
                <<"Pilot results", selected.pilot_results>>,
                <<"Secret sauce notes", selected.secret_sauce_notes>> >>)
        s6 == addSection(s5, "Summary", << <<"Summary", selected.summary>> >>)
    IN  s6

\* the optional columns of a Handoff (type Handoff), every one string | null
HandoffFields ==
    {"summary", "phase", "reported_by", "reported_role", "client_name",
     "pain_points", "budget", "priority", "ai_models_discussed",
     "technical_constraints", "api_information", "edge_cases",
     "latency_requirements", "gpu_cost_notes", "docker_tag",
     "performance_metrics", "pilot_results", "secret_sauce_notes"}

\* a Handoff row whose optional columns all hold v
Handoff(id, created, v) ==
    [f \in HandoffFields \cup {"id", "created_at"} |->
        IF f = "id" THEN id ELSE IF f = "created_at" THEN created ELSE v]

----------------------------------------------------------------------------
(* The store: tables handoffs and handoff_signoffs, and the two queries *)

DigitValue(c) == CHOOSE n \in 0..9 : digits(n) = <<c>>

\* the instant a YYYY-MM-DD created_at denotes, as a number that orders like it
DateKey(s) ==
    LET d(i) == DigitValue(s[i])
    IN  ((d(1) * 1000 + d(2) * 100 + d(3) * 10 + d(4)) * 100 + d(6) * 10 + d(7)) * 100
        + d(9) * 10 + d(10)

\* insert p into the pairs s, which are in descending order of their first component
RECURSIVE insertDesc(_, _)
insertDesc(s, p) ==
    IF s = <<>> THEN <<p>>
    ELSE IF p[1] > Head(s)[1] THEN <<p>> \o s
         ELSE <<Head(s)>> \o insertDesc(Tail(s), p)

RECURSIVE sortDesc(_)
sortDesc(s) ==
    IF s = <<>> THEN <<>>
    ELSE insertDesc(sortDesc(SubSeq(s, 1, Len(s) - 1)), s[Len(s)])

\* .order(column, { ascending: false }) over rows paired with their sort key
orderDesc(s) == LET t == sortDesc(s) IN [i \in DOMAIN t |-> t[i][2]]

\* the handoffs table as the intake pipeline filled it, in insertion order
HandoffTable ==
    << [Handoff(1, Str(<<"2","0","2","4","-","0","1","-","0","1">>), Null)
           EXCEPT !.phase = Str(<<"S","a","l","e","s">>)],
       Handoff(2, Str(<<"2","0","2","4","-","0","1","-","0","2">>), Null) >>

\* supabase.from("handoffs").select("*").order("created_at", { ascending: false })
selectHandoffs ==
    orderDesc([i \in DOMAIN HandoffTable |->
                  <<DateKey(HandoffTable[i].created_at.s), HandoffTable[i]>>])

\* the listing query without its .order(...): rows come in insertion order
selectSignoffsUnordered(table, handoffId) ==
    SelectSeq(table, LAMBDA e : e.handoff_id = handoffId)

\* ....from("handoff_signoffs").select("*").eq("handoff_id", handoffId).order("created_at", desc)
selectSignoffs(table, handoffId) ==
    LET mine == SelectSeq(table, LAMBDA e : e.handoff_id = handoffId)
    IN  orderDesc([i \in DOMAIN mine |-> <<mine[i].created_at, mine[i]>>])

\* the row the store keeps for an inserted sign-off: id and created_at are server-assigned
storedSignoff(table, row) ==
    [id |-> Len(table) + 1,
     created_at |-> Len(table) + 1,
     handoff_id |-> row.handoff_id,
     signed_by_name |-> row.signed_by_name,
     signed_by_role |-> row.signed_by_role,
     signed_for_phase |-> row.signed_for_phase,
     notes |-> row.notes]

\* the sign-off the table holds before the session starts
InitialSignoffs ==
    << [id |-> 1, created_at |-> 1, handoff_id |-> 2,
        signed_by_name |-> <<"Z">>, signed_by_role |-> <<"Q">>,
        signed_for_phase |-> <<"P">>, notes |-> Null] >>

----------------------------------------------------------------------------
(* Bounds of the model and what the user may type *)

MaxLoads == 2       \* load() calls outstanding at once
MaxLists == 2       \* loadSignoffs() calls outstanding at once
MaxSignoffs == 2    \* rows of handoff_signoffs, the initial ones included

NameInputs == { <<" ">>, <<" ", "A", " ">> }
RoleInputs == { <<"B">> }
PhaseInputs == { <<>>, <<"C", " ">> }
NotesInputs == { <<"\t">>, <<"o", "k", " ">> }

AlertFill == "Please fill: name, role, and phase."
AlertFailed == "Sign-off failed."

----------------------------------------------------------------------------
(* The page component Home *)

\* rows.find((r) => r.id === id) ?? null
find(rs, id) ==
    IF \E i \in DOMAIN rs : rs[i].id = id
    THEN rs[CHOOSE i \in DOMAIN rs :
                /\ rs[i].id = id
                /\ \A j \in DOMAIN rs : rs[j].id = id => i <= j]
    ELSE NoRecord

\* const selected = useMemo(() => rows.find((r) => r.id === selectedId) ?? null, ...)
selected == find(rows, selectedId)

\* one more call c outstanding in the bag of calls b
issue(b, c) == b (+) SetToBag({c})
settle(b, c) == b (-) SetToBag({c})

NoRow == [handoff_id |-> 0]

\* a loadSignoffs(handoffId) call just sent; `by` is "effect" or "submit", and
\* a call made by submitSignoff still has that invocation's row in scope.
\* The store reads the table at some instant between the call and its answer:
\* the table only grows, so what it reads is a prefix of the table no shorter
\* than the table was at the call, `since`
listCall(handoffId, by, row, table) ==
    [handoff_id |-> handoffId, by |-> by, row |-> row, since |-> Len(table)]

\* the effect of [selectedId] that always overwrites the form's phase
selectionEffectAlways(newId, newRows, ls) ==
    IF newId = selectedId \/ newId = 0
    THEN /\ lists' = ls
         /\ signPhase' = signPhase
    ELSE LET r == find(newRows, newId)
             phase == IF r = NoRecord THEN Undefined ELSE r.phase
         IN  /\ lists' = issue(ls, listCall(newId, "effect", NoRow, signoffTable))
             /\ signPhase' = IF Truthy(phase) THEN phase.s ELSE signPhase

\* useEffect(..., [selectedId]) run after a render that committed newId and
\* newRows, the sign-off calls outstanding being ls
selectionEffect(newId, newRows, ls) ==
    IF newId = selectedId \/ newId = 0
    THEN /\ lists' = ls
         /\ signPhase' = signPhase
    ELSE LET r == find(newRows, newId)
             phase == IF r = NoRecord THEN Undefined ELSE r.phase
         IN  /\ lists' = issue(ls, listCall(newId, "effect", NoRow, signoffTable))
             /\ signPhase' = IF Truthy(phase) /\ signPhase = <<>>
                             THEN phase.s
                             ELSE signPhase

\* whether the effect will start a loadSignoffs call
effectLists(newId) == newId # selectedId /\ newId # 0

\* alert() blocks the page's thread until it is dismissed
idle == alertMsg = ""

\* the component after its first render and the mount effect's load()
HomeInit ==
    /\ rows = <<>>
    /\ selectedId = 0
    /\ selectedSignoffs = <<>>
    /\ loading = TRUE
    /\ enableSignoff = FALSE
    /\ signName = <<>>
    /\ signRole = <<>>
    /\ signPhase = <<>>
    /\ signNotes = <<>>
    /\ signSaving = FALSE
    /\ alertMsg = ""
    /\ loads = SetToBag({[selectedId |-> 0]})
    /\ lists = EmptyBag
    /\ inserts = EmptyBag
    /\ signoffTable = InitialSignoffs

Pending == [done |-> FALSE]
Result(v) == [done |-> TRUE, value |-> v]

Init ==
    /\ variant \in {"page", "part_000"}
    /\ HomeInit
    /\ probe = Null
    /\ probeOut = Pending

\* load(), up to its await: the Refresh button (the mount effect's call is in Init)
Load ==
    /\ idle
    /\ BagCardinality(loads) < MaxLoads
    /\ loading' = TRUE
    /\ loads' = issue(loads, [selectedId |-> selectedId])
    /\ UNCHANGED <<variant, rows, selectedId, selectedSignoffs, enableSignoff,
                   signName, signRole, signPhase, signNotes, signSaving, alertMsg,
                   lists, inserts, signoffTable, probe, probeOut>>

\* load() from its await on, the query having failed, that never clears the selection
LoadFailedKeepsSelection(c) ==
    /\ idle
    /\ BagIn(c, loads)
    /\ loads' = settle(loads, c)
    /\ rows' = <<>>
    /\ loading' = FALSE
    /\ UNCHANGED <<variant, selectedId, selectedSignoffs, enableSignoff, signName,
                   signRole, signPhase, signNotes, signSaving, alertMsg, lists,
                   inserts, signoffTable, probe, probeOut>>

\* load() from its await on, the query having failed: page.tsx also clears the
\* selection, part_000 does not
LoadFailed(c) ==
    /\ idle
    /\ BagIn(c, loads)
    /\ loads' = settle(loads, c)
    /\ rows' = <<>>
    /\ selectedId' = IF variant = "page" THEN 0 ELSE selectedId
    /\ loading' = FALSE
    /\ selectionEffect(selectedId', rows', lists)
    /\ UNCHANGED <<variant, selectedSignoffs, enableSignoff, signName, signRole,
                   signNotes, signSaving, alertMsg, inserts, signoffTable,
                   probe, probeOut>>

\* load() from its await on, the query having returned its rows; c.selectedId
\* is the selectedId of the render whose load was called
LoadDone(c) ==
    LET clean == selectHandoffs
    IN  /\ idle
        /\ BagIn(c, loads)
        /\ loads' = settle(loads, c)
        /\ rows' = clean
        /\ selectedId' = IF c.selectedId = 0 /\ Len(clean) # 0
                         THEN clean[1].id
                         ELSE selectedId
        /\ effectLists(selectedId') => BagCardinality(lists) < MaxLists
        /\ loading' = FALSE
        /\ selectionEffect(selectedId', rows', lists)
        /\ UNCHANGED <<variant, selectedSignoffs, enableSignoff, signName, signRole,
                       signNotes, signSaving, alertMsg, inserts, signoffTable,
                       probe, probeOut>>

\* onClick={() => setSelectedId(r.id)} of the i-th row button
SelectRow(i) ==
    /\ idle
    /\ i \in DOMAIN rows
    /\ selectedId' = rows[i].id
    /\ effectLists(selectedId') => BagCardinality(lists) < MaxLists
    /\ selectionEffect(selectedId', rows, lists)
    /\ UNCHANGED <<variant, rows, selectedSignoffs, loading, enableSignoff, signName,
                   signRole, signNotes, signSaving, alertMsg, loads, inserts,
                   signoffTable, probe, probeOut>>

\* loadSignoffs(handoffId) from its await on, the query having failed
ListFailed(c) ==
    /\ idle
    /\ BagIn(c, lists)
    /\ lists' = settle(lists, c)
    /\ selectedSignoffs' = <<>>
    /\ UNCHANGED <<variant, rows, selectedId, loading, enableSignoff, signName,
                   signRole, signPhase, signNotes, signSaving, alertMsg, loads,
                   inserts, signoffTable, probe, probeOut>>

\* loadSignoffs(handoffId) from its await on, the query having returned the
\* rows it read when the table had n rows
ListDone(c, n) ==
    /\ idle
    /\ BagIn(c, lists)
    /\ n \in c.since .. Len(signoffTable)
    /\ lists' = settle(lists, c)
    /\ selectedSignoffs' = selectSignoffs(SubSeq(signoffTable, 1, n), c.handoff_id)
    /\ UNCHANGED <<variant, rows, selectedId, loading, enableSignoff, signName,
                   signRole, signPhase, signNotes, signSaving, alertMsg, loads,
                   inserts, signoffTable, probe, probeOut>>

\* the checkbox "Add sign-off" and the Cancel button: setEnableSignoff(b)
SetEnableSignoff(b) ==
    /\ idle
    /\ selected # NoRecord
    /\ b = FALSE => enableSignoff
    /\ enableSignoff' = b
    /\ UNCHANGED <<variant, rows, selectedId, selectedSignoffs, loading, signName,
                   signRole, signPhase, signNotes, signSaving, alertMsg, loads,
                   lists, inserts, signoffTable, probe, probeOut>>

\* the form is rendered: {enableSignoff && (...)} inside the details of `selected`
formShown == selected # NoRecord /\ enableSignoff

SetSignName(v) ==
    /\ idle
    /\ formShown
    /\ signName' = v
    /\ UNCHANGED <<variant, rows, selectedId, selectedSignoffs, loading, enableSignoff,
                   signRole, signPhase, signNotes, signSaving, alertMsg, loads,
                   lists, inserts, signoffTable, probe, probeOut>>

SetSignRole(v) ==
    /\ idle
    /\ formShown
    /\ signRole' = v
    /\ UNCHANGED <<variant, rows, selectedId, selectedSignoffs, loading, enableSignoff,
                   signName, signPhase, signNotes, signSaving, alertMsg, loads,
                   lists, inserts, signoffTable, probe, probeOut>>

SetSignPhase(v) ==
    /\ idle
    /\ formShown
    /\ signPhase' = v
    /\ UNCHANGED <<variant, rows, selectedId, selectedSignoffs, loading, enableSignoff,
                   signName, signRole, signNotes, signSaving, alertMsg, loads,
                   lists, inserts, signoffTable, probe, probeOut>>

SetSignNotes(v) ==
    /\ idle
    /\ formShown
    /\ signNotes' = v
    /\ UNCHANGED <<variant, rows, selectedId, selectedSignoffs, loading, enableSignoff,
                   signName, signRole, signPhase, signSaving, alertMsg, loads,
                   lists, inserts, signoffTable, probe, probeOut>>

\* signNotes.trim() || null
notesOrNull(s) == IF trim(s) = <<>> THEN Null ELSE Str(trim(s))

\* the row with handoff_id left out of the object: the column stays null
signoffRowNoRecord(handoffId, name, role, phase, notes) ==
    [handoff_id |-> 0,
     signed_by_name |-> name,
     signed_by_role |-> role,
     signed_for_phase |-> phase,
     notes |-> notesOrNull(notes)]

\* the row submitSignoff() hands to insert()
signoffRow(handoffId, name, role, phase, notes) ==
    [handoff_id |-> handoffId,
     signed_by_name |-> name,
     signed_by_role |-> role,
     signed_for_phase |-> phase,
     notes |-> notesOrNull(notes)]

\* submitSignoff() that sets signSaving before it validates
SubmitSignoffSavingFirst ==
    /\ idle
    /\ formShown
    /\ ~signSaving
    /\ LET name == trim(signName)
           role == trim(signRole)
           phase == trim(signPhase)
       IN  IF selected = NoRecord
           THEN UNCHANGED <<signSaving, alertMsg, inserts>>
           ELSE IF name = <<>> \/ role = <<>> \/ phase = <<>>
           THEN /\ signSaving' = TRUE
                /\ alertMsg' = AlertFill
                /\ UNCHANGED inserts
           ELSE /\ Len(signoffTable) + BagCardinality(inserts) < MaxSignoffs
                /\ signSaving' = TRUE
                /\ inserts' = issue(inserts,
                      [row |-> signoffRow(selected.id, name, role, phase, signNotes),
                       stage |-> "sent"])
                /\ UNCHANGED alertMsg
    /\ UNCHANGED <<variant, rows, selectedId, selectedSignoffs, loading,
                   enableSignoff, signName, signRole, signPhase, signNotes,
                   loads, lists, signoffTable, probe, probeOut>>

\* submitSignoff() behind a button that is not disabled while an insert is pending
SubmitSignoffWhileSaving ==
    /\ idle
    /\ formShown
    /\ LET name == trim(signName)
           role == trim(signRole)
           phase == trim(signPhase)
       IN  IF selected = NoRecord
           THEN UNCHANGED <<signSaving, alertMsg, inserts>>
           ELSE IF name = <<>> \/ role = <<>> \/ phase = <<>>
           THEN /\ alertMsg' = AlertFill
                /\ UNCHANGED <<signSaving, inserts>>
           ELSE /\ Len(signoffTable) + BagCardinality(inserts) < MaxSignoffs
                /\ signSaving' = TRUE
                /\ inserts' = issue(inserts,
                      [row |-> signoffRow(selected.id, name, role, phase, signNotes),
                       stage |-> "sent"])
                /\ UNCHANGED alertMsg
    /\ UNCHANGED <<variant, rows, selectedId, selectedSignoffs, loading,
                   enableSignoff, signName, signRole, signPhase, signNotes,
                   loads, lists, signoffTable, probe, probeOut>>

\* submitSignoff(), up to its await: the Submit sign-off button, disabled={signSaving}
SubmitSignoff ==
    /\ idle
    /\ formShown
    /\ ~signSaving
    /\ LET name == trim(signName)
           role == trim(signRole)
           phase == trim(signPhase)
       IN  IF selected = NoRecord
           THEN UNCHANGED <<signSaving, alertMsg, inserts>>
           ELSE IF name = <<>> \/ role = <<>> \/ phase = <<>>
           THEN /\ alertMsg' = AlertFill
                /\ UNCHANGED <<signSaving, inserts>>
           ELSE /\ Len(signoffTable) + BagCardinality(inserts) < MaxSignoffs
                /\ signSaving' = TRUE
                /\ inserts' = issue(inserts,
                      [row |-> signoffRow(selected.id, name, role, phase, signNotes),
                       stage |-> "sent"])
                /\ UNCHANGED alertMsg
    /\ UNCHANGED <<variant, rows, selectedId, selectedSignoffs, loading,
                   enableSignoff, signName, signRole, signPhase, signNotes,
                   loads, lists, signoffTable, probe, probeOut>>

\* the user dismisses the alert
DismissAlert ==
    /\ ~idle
    /\ alertMsg' = ""
    /\ UNCHANGED <<variant, rows, selectedId, selectedSignoffs, loading,
                   enableSignoff, signName, signRole, signPhase, signNotes,
                   signSaving, loads, lists, inserts, signoffTable, probe, probeOut>>

\* a store that takes the call as an upsert on handoff_id: the entry the
\* record already has is overwritten
InsertServedUpsert(c) ==
    /\ BagIn(c, inserts)
    /\ c.stage = "sent"
    /\ inserts' = issue(settle(inserts, c), [c EXCEPT !.stage = "stored"])
    /\ signoffTable' =
          IF \E i \in DOMAIN signoffTable : signoffTable[i].handoff_id = c.row.handoff_id
          THEN [i \in DOMAIN signoffTable |->
                  IF signoffTable[i].handoff_id = c.row.handoff_id
                  THEN storedSignoff(SubSeq(signoffTable, 1, i - 1), c.row)
                  ELSE signoffTable[i]]
          ELSE Append(signoffTable, storedSignoff(signoffTable, c.row))
    /\ UNCHANGED <<variant, rows, selectedId, selectedSignoffs, loading, enableSignoff,
                   signName, signRole, signPhase, signNotes, signSaving, alertMsg,
                   loads, lists, probe, probeOut>>

\* the store accepts an insert and appends the row
InsertServed(c) ==
    /\ BagIn(c, inserts)
    /\ c.stage = "sent"
    /\ inserts' = issue(settle(inserts, c), [c EXCEPT !.stage = "stored"])
    /\ signoffTable' = Append(signoffTable, storedSignoff(signoffTable, c.row))
    /\ UNCHANGED <<variant, rows, selectedId, selectedSignoffs, loading, enableSignoff,
                   signName, signRole, signPhase, signNotes, signSaving, alertMsg,
                   loads, lists, probe, probeOut>>

\* submitSignoff() from its await on that resets the form though the insert failed
InsertFailedResets(c) ==
    /\ idle
    /\ BagIn(c, inserts)
    /\ c.stage = "sent"
    /\ inserts' = settle(inserts, c)
    /\ signSaving' = FALSE
    /\ alertMsg' = AlertFailed
    /\ enableSignoff' = FALSE
    /\ signNotes' = <<>>
    /\ UNCHANGED <<variant, rows, selectedId, selectedSignoffs, loading,
                   signName, signRole, signPhase, loads, lists,
                   signoffTable, probe, probeOut>>

\* submitSignoff() from its await on, the store having rejected the insert
InsertFailed(c) ==
    /\ idle
    /\ BagIn(c, inserts)
    /\ c.stage = "sent"
    /\ inserts' = settle(inserts, c)
    /\ signSaving' = FALSE
    /\ alertMsg' = AlertFailed
    /\ UNCHANGED <<variant, rows, selectedId, selectedSignoffs, loading,
                   enableSignoff, signName, signRole, signPhase, signNotes, loads,
                   lists, signoffTable, probe, probeOut>>

\* submitSignoff() from its await on that puts the submitted row into the list itself
InsertDoneMerges(c) ==
    /\ idle
    /\ BagIn(c, inserts)
    /\ c.stage = "stored"
    /\ BagCardinality(lists) < MaxLists
    /\ inserts' = settle(inserts, c)
    /\ signSaving' = FALSE
    /\ enableSignoff' = FALSE
    /\ signNotes' = <<>>
    /\ selectedSignoffs' = <<storedSignoff(<<>>, c.row)>> \o selectedSignoffs
    /\ lists' = issue(lists, listCall(c.row.handoff_id, "submit", c.row, signoffTable))
    /\ UNCHANGED <<variant, rows, selectedId, loading, signName,
                   signRole, signPhase, alertMsg, loads, signoffTable, probe, probeOut>>

\* submitSignoff() from its await on, the insert having succeeded, up to the
\* await of loadSignoffs(selected.id)
InsertDone(c) ==
    /\ idle
    /\ BagIn(c, inserts)
    /\ c.stage = "stored"
    /\ BagCardinality(lists) < MaxLists
    /\ inserts' = settle(inserts, c)
    /\ signSaving' = FALSE
    /\ enableSignoff' = FALSE
    /\ signNotes' = <<>>
    /\ lists' = issue(lists, listCall(c.row.handoff_id, "submit", c.row, signoffTable))
    /\ UNCHANGED <<variant, rows, selectedId, selectedSignoffs, loading, signName,
                   signRole, signPhase, alertMsg, loads, signoffTable, probe, probeOut>>

Next ==
    \/ Load
    \/ \E c \in BagToSet(loads) : LoadFailed(c)
    \/ \E c \in BagToSet(loads) : LoadDone(c)
    \/ \E i \in DOMAIN rows : SelectRow(i)
    \/ \E c \in BagToSet(lists) : ListFailed(c)
    \/ \E c \in BagToSet(lists), n \in 0 .. MaxSignoffs : ListDone(c, n)
    \/ \E b \in BOOLEAN : SetEnableSignoff(b)
    \/ \E v \in NameInputs : SetSignName(v)
    \/ \E v \in RoleInputs : SetSignRole(v)
    \/ \E v \in PhaseInputs : SetSignPhase(v)
    \/ \E v \in NotesInputs : SetSignNotes(v)
    \/ SubmitSignoff
    \/ DismissAlert
    \/ \E c \in BagToSet(inserts) : InsertServed(c)
    \/ \E c \in BagToSet(inserts) : InsertFailed(c)
    \/ \E c \in BagToSet(inserts) : InsertDone(c)

Spec == Init /\ [][Next]_vars

----------------------------------------------------------------------------
(* The page once its first load has returned, over a store that holds no
   sign-off yet: the session has room for two submissions.  No further load
   is made, so the handlers of load() are left out. *)

SubmitsInit ==
    /\ variant = "page"
    /\ rows = selectHandoffs
    /\ selectedId = selectHandoffs[1].id
    /\ selectedSignoffs = <<>>
    /\ loading = FALSE
    /\ enableSignoff = FALSE
    /\ signName = <<>>
    /\ signRole = <<>>
    /\ signPhase = <<>>
    /\ signNotes = <<>>
    /\ signSaving = FALSE
    /\ alertMsg = ""
    /\ loads = EmptyBag
    /\ lists = SetToBag({listCall(selectHandoffs[1].id, "effect", NoRow, <<>>)})
    /\ inserts = EmptyBag
    /\ signoffTable = <<>>
    /\ probe = Null
    /\ probeOut = Pending

NextSubmits ==
    \/ \E i \in DOMAIN rows : SelectRow(i)
    \/ \E c \in BagToSet(lists) : ListFailed(c)
    \/ \E c \in BagToSet(lists), n \in 0 .. MaxSignoffs : ListDone(c, n)
    \/ \E b \in BOOLEAN : SetEnableSignoff(b)
    \/ \E v \in NameInputs : SetSignName(v)
    \/ \E v \in RoleInputs : SetSignRole(v)
    \/ \E v \in PhaseInputs : SetSignPhase(v)
    \/ \E v \in NotesInputs : SetSignNotes(v)
    \/ SubmitSignoff
    \/ DismissAlert
    \/ \E c \in BagToSet(inserts) : InsertServed(c)
    \/ \E c \in BagToSet(inserts) : InsertFailed(c)
    \/ \E c \in BagToSet(inserts) : InsertDone(c)

SpecSubmits == SubmitsInit /\ [][NextSubmits]_vars

----------------------------------------------------------------------------
(* isUseful applied to values of every shape *)

MaxPad == 1         \* white space characters on either side of a probed string

toUpperChar(c) ==
    IF \E i \in DOMAIN LowerCase : LowerCase[i] = c
    THEN UpperCase[CHOOSE i \in DOMAIN LowerCase : LowerCase[i] = c]
    ELSE c

toUpperCase(s) == [i \in DOMAIN s |-> toUpperChar(s[i])]

capitalize(s) == IF s = <<>> THEN s ELSE <<toUpperChar(s[1])>> \o Tail(s)

Pads == UNION { [1 .. n -> WhiteSpace] : n \in 0 .. MaxPad }

LowerCores ==
    { <<>>, SentinelNA, SentinelNa, SentinelNull, SentinelUndefined,
      <<"n", " ", "a">>, <<"n", "/", " ", "a">>, <<"n", "a", "n">>,
      <<"n", "u", "l">>, <<"n", "u", "l", "l", "s">>, <<"n", "o", "n", "e">>,
      <<"x">>, <<"0">>, <<"-">>, <<"n", "/", "a", ".">>,
      <<"u", "n", "d", "e", "f", "i", "n", "e">> }

Cores == LowerCores \cup { toUpperCase(c) : c \in LowerCores }
                    \cup { capitalize(c) : c \in LowerCores }

ClassifyInputs ==
    {Null, Undefined, Num(0), Num(7), Bool(FALSE), Bool(TRUE)}
    \cup { Str(l \o c \o r) : l \in Pads, c \in Cores, r \in Pads }

ClassifyInit ==
    /\ variant = "page"
    /\ HomeInit
    /\ probe \in ClassifyInputs
    /\ probeOut = Pending

Classify ==
    /\ ~probeOut.done
    /\ probeOut' = Result(isUseful(probe))
    /\ UNCHANGED <<variant, rows, selectedId, selectedSignoffs, loading, enableSignoff,
                   signName, signRole, signPhase, signNotes, signSaving, alertMsg,
                   loads, lists, inserts, signoffTable, probe>>

SpecClassify == ClassifyInit /\ [][Classify]_vars

----------------------------------------------------------------------------
(* detailSections applied to sparse records *)

MaxSet == 2         \* columns of a probed record that differ from the others

CreatedInputs ==
    { Str(<<"2","0","2","4","-","0","3","-","0","9">>), Null, Str(<<>>),
      Str(<<"s","o","o","n">>), Str(SentinelNull), Str(SentinelNA), Str(<<" ">>) }

FillInputs == { Null, Undefined, Str(<<>>), Str(<<" ">>), Str(<<"N","/","A">>) }

SetInputs == { Str(<<"l","o","w">>), Num(5) }

FieldSets == { F \in SUBSET HandoffFields : Cardinality(F) <= MaxSet }

SectionInputs ==
    {NoRecord}
    \cup { [f \in HandoffFields \cup {"id", "created_at"} |->
              IF f \in F THEN v ELSE Handoff(1, created, fill)[f]] :
           F \in FieldSets, v \in SetInputs, created \in CreatedInputs,
           fill \in FillInputs }

SectionsInit ==
    /\ variant = "page"
    /\ HomeInit
    /\ probe \in SectionInputs
    /\ probeOut = Pending

BuildSections ==
    /\ ~probeOut.done
    /\ probeOut' = Result(detailSections(probe))
    /\ UNCHANGED <<variant, rows, selectedId, selectedSignoffs, loading, enableSignoff,
                   signName, signRole, signPhase, signNotes, signSaving, alertMsg,
                   loads, lists, inserts, signoffTable, probe>>

SpecSections == SectionsInit /\ [][BuildSections]_vars

----------------------------------------------------------------------------
(* stats: the record count and the most frequent phase (src/app/page.tsx) *)

Unknown == <<"U","n","k","n","o","w","n">>

\* (r.phase || "Unknown").trim()
phaseKey(r) == trim(IF Truthy(r.phase) THEN r.phase.s ELSE Unknown)

\* byPhase[p] = (byPhase[p] || 0) + 1, on the properties in creation order
bump(obj, p) ==
    IF \E i \in DOMAIN obj : obj[i].key = p
    THEN [i \in DOMAIN obj |->
            IF obj[i].key = p THEN [obj[i] EXCEPT !.count = @ + 1] ELSE obj[i]]
    ELSE Append(obj, [key |-> p, count |-> 1])

\* rows.forEach((r) => { ... }) starting from {}
RECURSIVE tally(_, _)
tally(rs, obj) ==
    IF rs = <<>> THEN obj ELSE tally(Tail(rs), bump(obj, phaseKey(Head(rs))))

\* a < b for two strings of decimal digits of the same length
RECURSIVE digitsLess(_, _)
digitsLess(a, b) ==
    IF a = <<>> THEN FALSE
    ELSE IF Head(a) # Head(b) THEN DigitValue(Head(a)) < DigitValue(Head(b))
    ELSE digitsLess(Tail(a), Tail(b))

\* a < b as numbers, for two canonical decimal numerals (no leading zero)
numeralLess(a, b) ==
    Len(a) < Len(b) \/ (Len(a) = Len(b) /\ digitsLess(a, b))

\* the largest array index, 2^32 - 2
MaxArrayIndex == <<"4","2","9","4","9","6","7","2","9","4">>

\* a property key that is an array index: the canonical decimal numeral of an
\* integer in 0 .. 2^32 - 2
isArrayIndex(s) ==
    /\ s # <<>>
    /\ \A i \in DOMAIN s : s[i] \in Digit
    /\ (Len(s) > 1 => s[1] # "0")
    /\ ~numeralLess(MaxArrayIndex, s)

\* insert entry e into s, which ascends by numeric key
RECURSIVE insertAscending(_, _)
insertAscending(s, e) ==
    IF s = <<>> THEN <<e>>
    ELSE IF numeralLess(e.key, Head(s).key) THEN <<e>> \o s
    ELSE <<Head(s)>> \o insertAscending(Tail(s), e)

RECURSIVE ascending(_)
ascending(s) ==
    IF s = <<>> THEN <<>> ELSE insertAscending(ascending(Tail(s)), Head(s))

\* Object.entries(obj): the array-index keys in ascending numeric order, then
\* the other string keys in the order of their creation
objectEntries(obj) ==
    ascending(SelectSeq(obj, LAMBDA e : isArrayIndex(e.key)))
    \o SelectSeq(obj, LAMBDA e : ~isArrayIndex(e.key))

\* insert e into s, which is sorted by (a, b) => b[1] - a[1]: e goes before
\* the first entry the comparator puts it before, so after its equals
RECURSIVE insertByCount(_, _)
insertByCount(s, e) ==
    IF s = <<>> THEN <<e>>
    ELSE IF Head(s).count - e.count < 0 THEN <<e>> \o s
    ELSE <<Head(s)>> \o insertByCount(Tail(s), e)

\* Array.prototype.sort((a, b) => b[1] - a[1]), which is stable
RECURSIVE sortByCount(_)
sortByCount(s) ==
    IF s = <<>> THEN <<>>
    ELSE insertByCount(sortByCount(SubSeq(s, 1, Len(s) - 1)), s[Len(s)])

\* const stats = useMemo(() => { ... return { total, topPhase } }, [rows])
stats(rs) ==
    LET byPhase == tally(rs, <<>>)
        sorted == sortByCount(objectEntries(byPhase))
    IN  [total |-> Len(rs),
         topPhase |-> IF sorted = <<>> THEN SentinelNA ELSE sorted[1].key]

----------------------------------------------------------------------------
(* stats applied to short record lists *)

MaxRows == 3        \* records in a probed list

StatsPhases ==
    { Null, Undefined, Str(<<>>), Str(<<" ">>),
      Str(<<"S","a","l","e","s">>), Str(<<" ","S","a","l","e","s">>),
      Str(<<"E","n","g">>), Str(<<"7">>), Str(<<"1","0">>),
      Str(SentinelNA), Str(Unknown) }

StatsInputs ==
    UNION { { [i \in 1 .. n |->
                 [Handoff(i, Str(<<"2","0","2","4","-","0","1","-","0","1">>), Null)
                     EXCEPT !.phase = ph[i]]] :
              ph \in [1 .. n -> StatsPhases] } :
            n \in 0 .. MaxRows }

StatsInit ==
    /\ variant = "page"
    /\ HomeInit
    /\ probe \in StatsInputs
    /\ probeOut = Pending

Summarize ==
    /\ ~probeOut.done
    /\ probeOut' = Result(stats(probe))
    /\ UNCHANGED <<variant, rows, selectedId, selectedSignoffs, loading, enableSignoff,
                   signName, signRole, signPhase, signNotes, signSaving, alertMsg,
                   loads, lists, inserts, signoffTable, probe>>

SpecStats == StatsInit /\ [][Summarize]_vars

----------------------------------------------------------------------------
(* Claims about the pure functions *)

\* a and b are the same string up to the case of their letters
sameIgnoringCase(a, b) ==
    /\ Len(a) = Len(b)
    /\ \A k \in DOMAIN a :
          \/ a[k] = b[k]
          \/ \E n \in DOMAIN UpperCase :
                {a[k], b[k]} = {UpperCase[n], LowerCase[n]}

\* s is white space around nothing, or around one of the sentinel words in any case
blankOrSentinel(s) ==
    \E i \in 0 .. Len(s) : \E j \in i .. Len(s) :
        /\ \A k \in 1 .. i : s[k] \in WhiteSpace
        /\ \A k \in (j + 1) .. Len(s) : s[k] \in WhiteSpace
        /\ \E w \in {<<>>, SentinelNA, SentinelNa, SentinelNull, SentinelUndefined} :
              sameIgnoringCase(SubSeq(s, i + 1, j), w)

\* C8: isUseful decides every input: null and undefined are not useful, a
\* string is not useful exactly when trimmed and lowercased it is empty or one
\* of "n/a", "na", "null", "undefined", and any other value is useful.
C8_IsUsefulDecides ==
    probeOut.done =>
        /\ probeOut.value \in BOOLEAN
        /\ probeOut.value =
              (CASE probe.t \in {"null", "undefined"} -> FALSE
                 [] probe.t = "string" -> ~blankOrSentinel(probe.s)
                 [] OTHER -> TRUE)

C8_Witness ==
    /\ probeOut.done
    /\ probe = Str(<<" ", "N", "/", "A", "\t">>)
    /\ probeOut.value = FALSE

\* the fixed catalog of sections: title, then label and column of each field
Catalog ==
    << [title |-> "Core",
        fields |-> << <<"Phase", "phase">>, <<"Client", "client_name">>,
                      <<"Reported by", "reported_by">>, <<"Role", "reported_role">>,
                      <<"Priority", "priority">>, <<"Budget", "budget">>,
                      <<"Created", "created_at">> >>],
       [title |-> "Sales info",
        fields |-> << <<"Pain points", "pain_points">>,
                      <<"AI models discussed", "ai_models_discussed">> >>],
       [title |-> "Solutions info",
        fields |-> << <<"Technical constraints", "technical_constraints">>,
                      <<"API info", "api_information">>,
                      <<"Edge cases", "edge_cases">> >>],
       [title |-> "Engineering info",
        fields |-> << <<"Latency requirements", "latency_requirements">>,
                      <<"GPU cost notes", "gpu_cost_notes">>,
                      <<"Docker tag", "docker_tag">> >>],
       [title |-> "Product info",
        fields |-> << <<"Performance metrics", "performance_metrics">>,
                      <<"Pilot results", "pilot_results">>,
                      <<"Secret sauce notes", "secret_sauce_notes">> >>],
       [title |-> "Summary",
        fields |-> << <<"Summary", "summary">> >>] >>

\* the labels of the meaningful fields of catalog section sec in record r, in order
meaningfulLabels(r, sec) ==
    LET kept == SelectSeq(sec.fields, LAMBDA f : isUseful(r[f[2]]))
    IN  [i \in DOMAIN kept |-> kept[i][1]]

\* what the catalog prescribes for record r: the sections with a meaningful
\* field, each with the labels of its meaningful fields
prescribed(r) ==
    LET all == [i \in DOMAIN Catalog |->
                   [title |-> Catalog[i].title,
                    labels |-> meaningfulLabels(r, Catalog[i])]]
    IN  SelectSeq(all, LAMBDA x : x.labels # <<>>)

outline(sections) ==
    [i \in DOMAIN sections |->
        [title |-> sections[i].title,
         labels |-> [k \in DOMAIN sections[i].items |-> sections[i].items[k].label]]]

\* C9: detailSections never returns a section whose items are empty, for a
\* record of any content and for no selected record.
C9_NoEmptySection ==
    probeOut.done =>
        \A i \in DOMAIN probeOut.value : Len(probeOut.value[i].items) > 0

C9_Witness ==
    /\ probeOut.done
    /\ probe # NoRecord
    /\ \A f \in HandoffFields : probe[f] = Str(<<"N", "/", "A">>)
    /\ probe.created_at = Null
    /\ probeOut.value = <<>>

\* C10: detailSections returns the catalog's sections in catalog order, a
\* section exactly when one of its fields is meaningful, with exactly its
\* meaningful fields in catalog order; a record with a valid creation time and
\* only phase and gpu_cost_notes set gives Core (Phase, Created) and
\* Engineering info (GPU cost notes).
C10_SectionsFollowCatalog ==
    (probeOut.done /\ probe # NoRecord) =>
        /\ outline(probeOut.value) = prescribed(probe)
        /\ ( /\ ValidDate(String(probe.created_at))
             /\ \A f \in HandoffFields :
                   isUseful(probe[f]) <=> f \in {"phase", "gpu_cost_notes"} )
           => outline(probeOut.value) =
                 << [title |-> "Core", labels |-> <<"Phase", "Created">>],
                    [title |-> "Engineering info", labels |-> <<"GPU cost notes">>] >>

C10_Witness ==
    /\ probeOut.done
    /\ probe # NoRecord
    /\ ValidDate(String(probe.created_at))
    /\ \A f \in HandoffFields :
          isUseful(probe[f]) <=> f \in {"phase", "gpu_cost_notes"}
    /\ Len(probeOut.value) = 2

\* the values of the items labelled Created, over all sections
createdValues(sections) ==
    UNION { { sections[i].items[k].value :
                k \in { j \in DOMAIN sections[i].items :
                           sections[i].items[j].label = "Created" } } :
            i \in DOMAIN sections }

\* the record's creation timestamp is a non-empty string that does not parse
unparseable(r) ==
    /\ r # NoRecord
    /\ r.created_at.t = "string"
    /\ r.created_at.s # <<>>
    /\ ~ValidDate(r.created_at.s)

\* C11: every creation timestamp that is a non-empty string and does not
\* parse, whatever the string, is shown verbatim as the Created item of the
\* Core section.
C11_UnparseableShownVerbatim ==
    (probeOut.done /\ unparseable(probe)) =>
        /\ probeOut.value # <<>>
        /\ probeOut.value[1].title = "Core"
        /\ createdValues(<<probeOut.value[1]>>) = {probe.created_at.s}

\* how many records of rs have category k, by the code's own categories
occurrences(rs, k) == Cardinality({ i \in DOMAIN rs : phaseKey(rs[i]) = k })

\* the position of the first record of the most frequent category that is
\* met earliest in rs
firstMostFrequent(rs) ==
    LET best == CHOOSE i \in DOMAIN rs :
                   \A j \in DOMAIN rs :
                      occurrences(rs, phaseKey(rs[j])) <= occurrences(rs, phaseKey(rs[i]))
        top == occurrences(rs, phaseKey(rs[best]))
    IN  CHOOSE i \in DOMAIN rs :
           /\ occurrences(rs, phaseKey(rs[i])) = top
           /\ \A j \in 1 .. i - 1 : occurrences(rs, phaseKey(rs[j])) < top

\* C12: for a non-empty list of records, topPhase is a phase with the highest
\* occurrence count, and among the phases that share the highest count the
\* one met first in the list, whatever the phase strings are.
C12_TopIsFirstMostFrequent ==
    (probeOut.done /\ probe # <<>>) =>
        probeOut.value.topPhase = phaseKey(probe[firstMostFrequent(probe)])

\* the record's phase is absent, null, empty or blank after trimming
blankPhase(r) == r.phase.t # "string" \/ trim(r.phase.s) = <<>>

\* the count the tally holds under key k, 0 when it has no such key
countUnder(obj, k) ==
    IF \E i \in DOMAIN obj : obj[i].key = k
    THEN obj[CHOOSE i \in DOMAIN obj : obj[i].key = k].count
    ELSE 0

\* C13: every record whose phase is absent, null, empty or blank after
\* trimming is counted under "Unknown" and under no other category: the
\* count of "Unknown" is the number of such records plus those whose phase
\* trims to "Unknown", and a list of such records only has topPhase "Unknown".
C13_BlankCountsAsUnknown ==
    probeOut.done =>
        /\ countUnder(tally(probe, <<>>), Unknown) =
              Cardinality({ i \in DOMAIN probe :
                              \/ blankPhase(probe[i])
                              \/ trim(probe[i].phase.s) = Unknown })
        /\ (probe # <<>> /\ \A i \in DOMAIN probe : blankPhase(probe[i]))
              => probeOut.value.topPhase = Unknown

\* C14: stats of the empty list is {total: 0, topPhase: "n/a"}; for a
\* non-empty list, whatever the phases, total is the number of records and
\* topPhase is not "n/a".
C14_NAOnlyWhenEmpty ==
    probeOut.done =>
        /\ probe = <<>> => probeOut.value = [total |-> 0, topPhase |-> SentinelNA]
        /\ probe # <<>> => /\ probeOut.value.total = Len(probe)
                           /\ probeOut.value.topPhase # SentinelNA

----------------------------------------------------------------------------
(* Claims about the page component *)

blank(s) == \A k \in DOMAIN s : s[k] \in WhiteSpace

\* t is s without the white space at its two ends
trimmedOf(s, t) ==
    /\ blank(s) => t = <<>>
    /\ ~blank(s) =>
          /\ t # <<>> /\ t[1] \notin WhiteSpace /\ t[Len(t)] \notin WhiteSpace
          /\ \E i \in 0 .. Len(s) :
                /\ i + Len(t) <= Len(s)
                /\ SubSeq(s, i + 1, i + Len(t)) = t
                /\ blank(SubSeq(s, 1, i))
                /\ blank(SubSeq(s, i + Len(t) + 1, Len(s)))

\* the stored sign-off e carries what the submitted row holds
carries(e, row) ==
    /\ e.handoff_id = row.handoff_id
    /\ e.signed_by_name = row.signed_by_name
    /\ e.signed_by_role = row.signed_by_role
    /\ e.signed_for_phase = row.signed_for_phase
    /\ e.notes = row.notes

tableRows == { signoffTable[i] : i \in DOMAIN signoffTable }

outstanding(b) == BagCardinality(b)

\* C1: with no sign-off fetch in flight, selectedSignoffs holds only entries of
\* the selected record: an answer for a record no longer selected is dropped.
\* (Stated here for the states that have a selected record.)
C1_StaleListingDiscarded ==
    (outstanding(lists) = 0 /\ selectedId # 0) =>
        \A i \in DOMAIN selectedSignoffs :
            selectedSignoffs[i].handoff_id = selectedId

\* C2: a submit whose name, role or phase is blank ends in the validation
\* alert and nothing else: no store call is issued, signSaving is not set, and
\* rows, the selection, the listed sign-offs and the form stay as they were.
C2_ValidationFailsFast ==
    [][ /\ (alertMsg' = AlertFill /\ alertMsg # AlertFill) =>
              /\ blank(signName) \/ blank(signRole) \/ blank(signPhase)
              /\ UNCHANGED <<rows, selectedId, selectedSignoffs, enableSignoff,
                             signName, signRole, signPhase, signNotes, signSaving,
                             loading, loads, lists, inserts, signoffTable>>
        /\ (blank(signName) \/ blank(signRole) \/ blank(signPhase)) =>
              /\ outstanding(inserts') <= outstanding(inserts)
              /\ signSaving' => signSaving
      ]_vars

C2_Witness ==
    /\ alertMsg = AlertFill
    /\ signName # <<>> /\ blank(signName)
    /\ ~blank(signRole) /\ ~blank(signPhase)
    /\ ~signSaving
    /\ outstanding(inserts) = 0

\* C3: a failed insert changes no local state: the step that starts the submit
\* only sets signSaving, and the step that ends it in the failure alert only
\* resets signSaving; the form, enableSignoff, selectedSignoffs, rows and
\* selectedId are untouched, no listing query is issued, and the button is
\* enabled again for the same submit.
C3_FailedInsertChangesNothing ==
    [][ /\ outstanding(inserts') > outstanding(inserts) =>
              /\ ~signSaving /\ signSaving'
              /\ UNCHANGED <<signName, signRole, signPhase, signNotes, enableSignoff,
                             selectedSignoffs, rows, selectedId, lists, signoffTable>>
        /\ (alertMsg' = AlertFailed /\ alertMsg # AlertFailed) =>
              /\ outstanding(inserts') = outstanding(inserts) - 1
              /\ ~signSaving'
              /\ UNCHANGED <<signName, signRole, signPhase, signNotes, enableSignoff,
                             selectedSignoffs, rows, selectedId, lists, loads,
                             signoffTable>>
      ]_vars

C3_Witness ==
    /\ alertMsg = AlertFailed
    /\ formShown
    /\ ~blank(signName) /\ ~blank(signRole) /\ ~blank(signPhase)
    /\ ~signSaving
    /\ outstanding(inserts) = 0
    /\ signoffTable = InitialSignoffs

\* C4 as stated: from the insert's success until the answer of the re-query
\* arrives, selectedSignoffs does not change.
C4_UnchangedUntilRequeryArrives ==
    [][ (\E c \in BagToSet(lists) :
            c.by = "submit" /\ CopiesIn(c, lists') >= CopiesIn(c, lists))
        => selectedSignoffs' = selectedSignoffs ]_vars

\* C4 amended: the step that completes a successful insert issues a listing
\* query for the signed record and leaves selectedSignoffs alone; and
\* selectedSignoffs changes only in a step in which the answer of a sign-off
\* listing query arrives (the re-query's or that of a selection change), to
\* rows of that query's record or to the empty list.
C4_NoOptimisticMerge ==
    [][ /\ (outstanding(inserts') < outstanding(inserts) /\ alertMsg' = alertMsg) =>
              /\ selectedSignoffs' = selectedSignoffs
              /\ \E c \in BagToSet(inserts) : \E d \in BagToSet(lists') :
                    /\ inserts' = settle(inserts, c)
                    /\ lists' = issue(lists, d)
                    /\ d.by = "submit"
                    /\ d.handoff_id = c.row.handoff_id
        /\ selectedSignoffs' # selectedSignoffs =>
              \E c \in BagToSet(lists) :
                  /\ lists' = settle(lists, c)
                  /\ \A i \in DOMAIN selectedSignoffs' :
                        /\ selectedSignoffs'[i] \in tableRows
                        /\ selectedSignoffs'[i].handoff_id = c.handoff_id
      ]_vars

C4_Witness ==
    \E c \in BagToSet(lists) :
        /\ c.by = "submit"
        /\ \E e \in tableRows : carries(e, c.row)
        /\ \A i \in DOMAIN selectedSignoffs : ~carries(selectedSignoffs[i], c.row)

\* the list l for a submit's re-query c: it holds the submitted entry at k
submittedAt(l, k, c) == k \in DOMAIN l /\ carries(l[k], c.row)

\* C5 as stated: when the selection is still the signed record as the submit
\* completes, selectedSignoffs starts with the submitted entry and every prior
\* entry of the record follows it.
C5_RoundTrip ==
    [][ \A c \in BagToSet(lists) :
            (c.by = "submit" /\ lists' = settle(lists, c) /\ selectedId = c.handoff_id)
            => /\ submittedAt(selectedSignoffs', 1, c)
               /\ \A e \in tableRows :
                     (e.handoff_id = c.handoff_id /\ e.id < selectedSignoffs'[1].id)
                     => \E i \in 2 .. Len(selectedSignoffs') : selectedSignoffs'[i] = e
      ]_vars

\* C5 amended: the row a submit sends carries the trimmed name, role and
\* phase and null notes when the notes are blank; the store keeps it as sent;
\* and when the re-query succeeds, selectedSignoffs is newest first, holds the
\* submitted entry, after it exactly the record's prior entries, and before it
\* only sign-offs of the record stored later, so it is first unless such a one
\* was stored before the re-query read the table.
C5_RoundTripWhenRequerySucceeds ==
    [][ /\ outstanding(inserts') > outstanding(inserts) =>
              \E c \in BagToSet(inserts') :
                  /\ inserts' = issue(inserts, c)
                  /\ c.row.handoff_id = selectedId
                  /\ trimmedOf(signName, c.row.signed_by_name)
                  /\ trimmedOf(signRole, c.row.signed_by_role)
                  /\ trimmedOf(signPhase, c.row.signed_for_phase)
                  /\ c.row.signed_by_name # <<>>
                  /\ c.row.signed_by_role # <<>>
                  /\ c.row.signed_for_phase # <<>>
                  /\ blank(signNotes) => c.row.notes = Null
                  /\ ~blank(signNotes) =>
                        c.row.notes.t = "string" /\ trimmedOf(signNotes, c.row.notes.s)
        /\ signoffTable' # signoffTable =>
              \E c \in BagToSet(inserts) :
                  /\ Len(signoffTable') = Len(signoffTable) + 1
                  /\ SubSeq(signoffTable', 1, Len(signoffTable)) = signoffTable
                  /\ carries(signoffTable'[Len(signoffTable')], c.row)
                  /\ \A i \in DOMAIN signoffTable :
                        signoffTable[i].created_at
                           < signoffTable'[Len(signoffTable')].created_at
        /\ \A c \in BagToSet(lists) :
              (c.by = "submit" /\ lists' = settle(lists, c) /\ selectedSignoffs' # <<>>)
              => LET l == selectedSignoffs'
                 IN  /\ \A i \in DOMAIN l : \A j \in DOMAIN l :
                           i < j => l[i].created_at > l[j].created_at
                     /\ \E k \in DOMAIN l :
                           /\ submittedAt(l, k, c)
                           /\ { l[i] : i \in (k + 1) .. Len(l) } =
                                 { e \in tableRows : /\ e.handoff_id = c.handoff_id
                                                     /\ e.created_at < l[k].created_at }
                           /\ \A i \in 1 .. (k - 1) : l[i].handoff_id = c.handoff_id
                           /\ (\A e \in tableRows :
                                  e.handoff_id = c.handoff_id =>
                                      e.created_at <= l[k].created_at)
                              => k = 1
      ]_vars

C5_Witness ==
    /\ outstanding(lists) = 0
    /\ Len(selectedSignoffs) >= 2
    /\ selectedSignoffs[1].id > Len(InitialSignoffs)
    /\ selectedSignoffs[1].handoff_id = selectedId
    /\ selectedSignoffs[1].signed_by_name = <<"A">>
    /\ selectedSignoffs[1].notes = Null
    /\ selectedSignoffs[2] = InitialSignoffs[1]

\* the phase column of the handoff with this id, as the store has it
storedPhase(id) ==
    LET r == CHOOSE r \in { HandoffTable[i] : i \in DOMAIN HandoffTable } : r.id = id
    IN  r.phase

\* C6 as stated: once a record is selected, no later selection change alters
\* signPhase.
C6_PrefillOnlyOnFirstSelection ==
    [][ (selectedId # 0 /\ selectedId' # selectedId) => signPhase' = signPhase ]_vars

\* C6 amended: a selection change sets signPhase to the newly selected record's
\* phase when signPhase is empty and that phase is a non-empty string, on the
\* first selection or a later one; otherwise it leaves signPhase as it is, so
\* a non-empty signPhase is never overwritten.
C6_PrefillWhenPhaseFieldEmpty ==
    [][ selectedId' # selectedId =>
            IF /\ selectedId' # 0
               /\ signPhase = <<>>
               /\ storedPhase(selectedId').t = "string"
               /\ storedPhase(selectedId').s # <<>>
            THEN signPhase' = storedPhase(selectedId').s
            ELSE signPhase' = signPhase
      ]_vars

C6_Witness ==
    /\ selectedId = 1
    /\ signPhase = <<"S", "a", "l", "e", "s">>
    /\ variant = "part_000"

\* a listing answer for call c that is empty cannot be a successful one: the
\* record had a sign-off when the call was made
mustHaveRows(c) ==
    \E i \in 1 .. c.since : signoffTable[i].handoff_id = c.handoff_id

\* C7 as stated: after a failed record load rows and selectedId are what they
\* were, and after a failed sign-off listing selectedSignoffs is what it was.
C7_FailureKeepsLoadedState ==
    [][ /\ (outstanding(loads') < outstanding(loads) /\ Len(rows') # Len(HandoffTable))
              => rows' = rows /\ selectedId' = selectedId
        /\ \A c \in BagToSet(lists) :
              (lists' = settle(lists, c) /\ selectedSignoffs' = <<>> /\ mustHaveRows(c))
              => selectedSignoffs' = selectedSignoffs
      ]_vars

\* C7 amended: a failed record load empties rows and, in page.tsx, clears
\* selectedId (part_000 keeps it), and a failed sign-off listing empties
\* selectedSignoffs; each leaves every other part of the state as it was: the
\* listed sign-offs, the form and the calls in flight survive a failed load,
\* rows, the selection and the form survive a failed listing.
C7_FailureClearsOnlyItsOwnState ==
    [][ /\ (outstanding(loads') < outstanding(loads) /\ Len(rows') # Len(HandoffTable))
              => /\ rows' = <<>>
                 /\ selectedId' = IF variant = "page" THEN 0 ELSE selectedId
                 /\ ~loading'
                 /\ UNCHANGED <<selectedSignoffs, enableSignoff, signName, signRole,
                                signPhase, signNotes, signSaving, alertMsg, lists,
                                inserts, signoffTable>>
        /\ \A c \in BagToSet(lists) :
              lists' = settle(lists, c)
              => /\ mustHaveRows(c) =>
                       \/ selectedSignoffs' = <<>>
                       \/ \E i \in DOMAIN selectedSignoffs' :
                             selectedSignoffs'[i].handoff_id = c.handoff_id
                 /\ UNCHANGED <<rows, selectedId, loading, enableSignoff, signName,
                                signRole, signPhase, signNotes, signSaving, alertMsg,
                                loads, inserts, signoffTable>>
      ]_vars

C7_Witness ==
    /\ variant = "page"
    /\ rows = <<>>
    /\ selectedId = 0
    /\ ~loading
    /\ selectedSignoffs # <<>>
    /\ signPhase # <<>>

\* C19: signSaving is true exactly while an insert of submitSignoff is
\* outstanding, and at most one insert is outstanding at any time: a second
\* submission starts only once the first insert has returned.
C19_SavingIffInsertOutstanding ==
    /\ signSaving <=> outstanding(inserts) > 0
    /\ outstanding(inserts) <= 1

\* the second submission's insert is outstanding, the first having returned
C19_Witness ==
    /\ Len(signoffTable) = 1
    /\ outstanding(inserts) = 1
    /\ signSaving

\* table t2 is table t1 with one row appended
appendsOne(t1, t2) ==
    /\ Len(t2) = Len(t1) + 1
    /\ SubSeq(t2, 1, Len(t1)) = t1

\* C15: the only write to the store is the insert of one new sign-off per
\* submission that passed validation: a step either leaves the sign-off table
\* as it is or appends to it the row of an insert that was outstanding and
\* not yet stored, which thereby counts as stored; no entry is ever changed
\* or removed.  (The handoffs table is never written: the model holds it as
\* the fixed HandoffTable.)
C15_AppendOnly ==
    [][ \/ signoffTable' = signoffTable
        \/ /\ appendsOne(signoffTable, signoffTable')
           /\ \E c \in BagToSet(inserts) :
                 /\ c.stage = "sent"
                 /\ carries(signoffTable'[Len(signoffTable')], c.row)
                 /\ inserts' = issue(settle(inserts, c), [c EXCEPT !.stage = "stored"])
      ]_vars

\* a submission's row has been appended to a table that held an entry already
C15_Witness ==
    /\ Len(signoffTable) = Len(InitialSignoffs) + 1
    /\ SubSeq(signoffTable, 1, Len(InitialSignoffs)) = InitialSignoffs
    /\ \E c \in BagToSet(inserts) : c.stage = "stored"

\* the ids of the intake records the store holds
storedIds == { HandoffTable[i].id : i \in DOMAIN HandoffTable }

\* C16: every insert submitSignoff issues, and so every entry of the table,
\* carries the id of an intake record of the store; the insert is issued for
\* the record selected among the loaded rows at the submission, and a
\* submission with no selected record issues none.
C16_SignoffReferencesRecord ==
    /\ [][ inserts' # inserts /\ outstanding(inserts') > outstanding(inserts)
             => /\ selected # NoRecord
                /\ \E c \in BagToSet(inserts') :
                      /\ inserts' = issue(inserts, c)
                      /\ c.row.handoff_id = selected.id
                      /\ c.row.handoff_id \in storedIds ]_vars
    /\ [](\A i \in DOMAIN signoffTable : signoffTable[i].handoff_id \in storedIds)
    /\ [](\A c \in BagToSet(inserts) : c.row.handoff_id \in storedIds)

\* an entry inserted in the session is in the table, for the older record
C16_Witness ==
    /\ Len(signoffTable) > Len(InitialSignoffs)
    /\ signoffTable[Len(signoffTable)].handoff_id = 1

\* the step is the arrival of a successful load's rows
loadArrives ==
    /\ outstanding(loads') < outstanding(loads)
    /\ rows' # <<>>

\* C17: a successful load never changes an existing selection: if a record
\* is selected when the load's rows arrive, selectedId stays as it is, also
\* when loads overlap and a row is clicked between the issue of a load and
\* its answer.
C17_LoadKeepsSelection ==
    [][ (loadArrives /\ selectedId # 0) => selectedId' = selectedId ]_vars

\* C18: whenever selectedId is not null it is the id of a record in rows.
C18_SelectionInRows ==
    selectedId # 0 => \E i \in DOMAIN rows : rows[i].id = selectedId

\* C20: loading is true whenever a load is in flight, and false only when
\* none is outstanding, overlapping loads included.
C20_LoadingWhileInFlight ==
    outstanding(loads) > 0 => loading

====
